---- MODULE Spec2Model ----
(***************************************************************************)
(* Model of the Google Drive -> YouTube upload pipeline:                   *)
(*   processor.py  VideoProcessor.process_videos / _process_single_video   *)
(*   tracker.py    ProcessedFilesTracker (the JSON ledger)                 *)
(*   youtube_handler.py  YouTubeHandler.upload_video (chunk retry loop)    *)
(*   notion_handler.py   NotionHandler.create_entry (the notifier)         *)
(*   gdrive_handler.py   list_videos / download_file                       *)
(*   main.py       the CLI commands, one operating-system process each     *)
(* The ledger file, its backup and the scratch directory outlive a         *)
(* process; everything else is rebuilt when a command starts.              *)
(***************************************************************************)
EXTENDS Integers, Sequences, FiniteSets, TLC

(* ------------------------------ bounds --------------------------------- *)
NumVideos == 2      \* files in the source folder
MaxRuns   == 2      \* CLI commands run one after the other
MaxChunks == 2      \* chunks of one resumable upload
MaxFaults == 2      \* failures of the environment in one history
MaxNames  == 3      \* items of a listing handed to the name filter
MaxOver   == 1      \* characters (or tags) by which a text exceeds its limit
MaxPages  == 2      \* continuation tokens a listing source can hand out

(* ------------------------- program constants --------------------------- *)
MAX_RETRIES == 3
TITLE_LIMIT       == 100     \* title[:100]
DESCRIPTION_LIMIT == 5000    \* description[:5000]
TAGS_LIMIT        == 500     \* tags[:500]
NAME_LIMIT        == 2000    \* video.name[:2000]
ERROR_LIMIT       == 2000    \* video.error_message[:2000]

RetryableStatuses == {500, 502, 503, 504}
HttpStatuses      == {403, 500, 501, 502, 503, 504}

(* Optional values: None is the empty tuple, a present value a 1-tuple.    *)
None    == <<>>
Some(x) == <<x>>

(* The folder listing: ids 1..NumVideos, in API response order.            *)
VideoIds == 1..NumVideos
VideoName(i) == CASE i = 1 -> "a" [] i = 2 -> "b" [] OTHER -> "ab"
VideoSize(i) == i

VideoFile(i) ==
    [id |-> i, name |-> VideoName(i), size |-> VideoSize(i),
     local_path |-> None, youtube_id |-> None, youtube_url |-> None,
     upload_status |-> "pending", error_message |-> None,
     processed_date |-> None]

VideoUrl(vid) == <<"https://www.youtube.com/watch?v=", vid>>

(* ------------------------------- text ---------------------------------- *)
(* A str is the sequence of its characters, a list the sequence of its     *)
(* items; None and the empty str or list are both falsy.                   *)
Falsy(s) == s = <<>>

(* s[:n]                                                                   *)
Take(s, n) == SubSeq(s, 1, IF Len(s) < n THEN Len(s) ELSE n)

LowerChar(c) == CASE c = "A" -> "a" [] c = "B" -> "b" [] OTHER -> c

(* a comparison that keeps the case                                        *)
lower_KeepsCase(s) == s

(* str.lower()                                                             *)
lower(s) == [k \in DOMAIN s |-> LowerChar(s[k])]

(* sub in s                                                                *)
Contains(sub, s) ==
    \E k \in 0..(Len(s) - Len(sub)) : SubSeq(s, k + 1, k + Len(sub)) = sub

(* process_videos: "Apply filter if provided"                              *)
FilterVideos(vs, video_filter) ==
    IF Falsy(video_filter) THEN vs
    ELSE SelectSeq(vs, LAMBDA v : Contains(lower(video_filter), lower(v.name)))

(* os.path.splitext(name)[0]: the name without its last extension; a dot   *)
(* that only follows dots does not start an extension                      *)
splitext(name) ==
    LET dots == {k \in DOMAIN name :
                    /\ name[k] = "."
                    /\ \E m \in 1..(k - 1) : name[m] # "."}
    IN  IF dots = {} THEN name
        ELSE SubSeq(name, 1, (CHOOSE k \in dots : \A m \in dots : m <= k) - 1)

DefaultDescription(now) == <<"Uploaded from Google Drive on ", now>>

(* a snippet whose description is sent whole                               *)
Snippet_WholeDescription(name, title, description, tags, default_tags, now) ==
    LET t == IF Falsy(title) THEN splitext(name) ELSE title
        d == IF Falsy(description) THEN DefaultDescription(now) ELSE description
        g == IF Falsy(tags) THEN default_tags ELSE tags
    IN  [title |-> Take(t, TITLE_LIMIT), description |-> d,
         tags |-> Take(g, TAGS_LIMIT)]

(* upload_video: "Prepare metadata", body['snippet']                       *)
Snippet(name, title, description, tags, default_tags, now) ==
    LET t == IF Falsy(title) THEN splitext(name) ELSE title
        d == IF Falsy(description) THEN DefaultDescription(now) ELSE description
        g == IF Falsy(tags) THEN default_tags ELSE tags
    IN  [title |-> Take(t, TITLE_LIMIT),
         description |-> Take(d, DESCRIPTION_LIMIT),
         tags |-> Take(g, TAGS_LIMIT)]

(* ------------------------- ledger serialisation ------------------------ *)
JNull     == <<"null">>
JStr(s)   == <<"str", s>>
JNum(n)   == <<"num", n>>
JOpt(o)   == IF o = None THEN JNull ELSE JStr(o[1])
UnJOpt(j) == IF j[1] = "null" THEN None ELSE Some(j[2])

JsonEntry(e) ==
    [name |-> JStr(e.name), size |-> JNum(e.size),
     youtube_id |-> JOpt(e.youtube_id), youtube_url |-> JOpt(e.youtube_url),
     processed_date |-> JNum(e.processed_date), status |-> JStr(e.status),
     error_message |-> JOpt(e.error_message)]

UnJsonEntry(j) ==
    [name |-> j.name[2], size |-> j.size[2],
     youtube_id |-> UnJOpt(j.youtube_id), youtube_url |-> UnJOpt(j.youtube_url),
     processed_date |-> j.processed_date[2], status |-> j.status[2],
     error_message |-> UnJOpt(j.error_message)]

RECURSIVE SortedKeys(_)
SortedKeys(S) ==
    IF S = {} THEN <<>>
    ELSE LET m == CHOOSE x \in S : \A y \in S : x <= y
         IN  <<m>> \o SortedKeys(S \ {m})

(* json.dump that loses the last member of the document                    *)
JsonDump_DropsLast(p) ==
    LET keys == SortedKeys(DOMAIN p)
    IN  [n \in 1..(Len(keys) - 1) |->
            [key |-> keys[n], value |-> JsonEntry(p[keys[n]])]]

(* json.dump(self.processed, f, indent=2, sort_keys=True)                  *)
JsonDump(p) ==
    LET keys == SortedKeys(DOMAIN p)
    IN  [n \in 1..Len(keys) |-> [key |-> keys[n], value |-> JsonEntry(p[keys[n]])]]

(* json.load(f): the members of the document, the last one of a key wins   *)
JsonLoad(doc) ==
    LET keys == {doc[n].key : n \in DOMAIN doc}
        Last(k) == CHOOSE n \in DOMAIN doc :
                      /\ doc[n].key = k
                      /\ \A m \in DOMAIN doc : doc[m].key = k => m <= n
    IN  [k \in keys |-> UnJsonEntry(doc[Last(k)].value)]

(* A file on disk: absent, unparsable, or holding a JSON document.         *)
MissingFile   == [kind |-> "missing", doc |-> <<>>]
CorruptFile   == [kind |-> "corrupt", doc |-> <<>>]
JsonFile(doc) == [kind |-> "json", doc |-> doc]
EmptyLedger   == <<>>

VARIABLES
    dbFile,       \* CONFIG["PROCESSED_FILES_DB"] on disk
    backupFile,   \* its ".backup" sibling
    scratch,      \* ids whose scratch file exists in TEMP_DOWNLOAD_PATH
    clock,        \* datetime.now(), one tick per command
    ytCount,      \* ids handed out by the destination so far
    runs,         \* commands started so far
    faults,       \* failures of the environment so far
    cmd,          \* command of the current process
    cfg,          \* CONFIG and arguments of the current process
    loaded,       \* how _load ended when the current process was constructed
    pc,           \* position of the current process
    processed,    \* ProcessedFilesTracker.processed
    videos,       \* the VideoFile objects of the current run
    idx,          \* position of the for loop of process_videos
    retry,        \* upload_video: retry
    chunksLeft,   \* upload_video: chunks the request still has to send
    exc,          \* the exception being handled, "" when none
    attempted,    \* ids handed to _process_single_video in this run, in order
    result,       \* how _process_single_video ended for each id in this run
    reached,      \* the exception process_videos caught for each id, "" when none
    notifyCalls,  \* create_entry calls per id in this run
    uploadCalls,  \* upload_video calls in this run
    chunkCalls,   \* next_chunk calls of the current upload
    sleeps,       \* time.sleep arguments of the current upload
    saveFailed,   \* ids for which a _save raised in this run
    removeFailed, \* ids for which os.remove raised in this run
    log,          \* <<id, stage>> of every stage call of this run, in order
    failedList,   \* retry_failed: the ids list_failed returned
    prev,         \* summary of the previous command
    call          \* the function call under study: operation, arguments, result

vars == <<dbFile, backupFile, scratch, clock, ytCount, runs, faults, cmd, cfg,
          loaded, pc,
          processed, videos, idx, retry, chunksLeft, exc, attempted, result,
          reached, notifyCalls, uploadCalls, chunkCalls, sleeps,
          saveFailed, removeFailed, log, failedList, prev, call>>

diskVars   == <<dbFile, backupFile, scratch>>
runVars    == <<clock, runs, cmd, cfg, loaded>>
uploadVars == <<retry, chunksLeft, chunkCalls, sleeps>>
itemGhosts == <<attempted, result, reached, notifyCalls, uploadCalls, saveFailed,
                removeFailed>>

(* ------------------------------ tracker -------------------------------- *)
(* ProcessedFilesTracker._load                                             *)
Load(f) == IF f.kind = "json" THEN JsonLoad(f.doc) ELSE EmptyLedger

(* how _load can end: the file is missing, json.load raises                *)
(* JSONDecodeError, open or read raise something else, or the document is  *)
(* returned                                                                *)
LoadOutcomes(f) == CASE f.kind = "missing" -> {"missing"}
                     [] f.kind = "corrupt" -> {"decode_error"}
                     [] OTHER              -> {"ok", "read_error"}
(* a _load that lets nothing but a missing file stand for the empty ledger *)
LoadResult_ReadsAnyway(f, o) == IF o = "missing" THEN EmptyLedger ELSE Load(f)

LoadResult(f, o) == IF o = "ok" THEN Load(f) ELSE EmptyLedger

(* is_processed that counts only the successful entries                    *)
is_processed_SuccessOnly(p, id) == id \in DOMAIN p /\ p[id].status = "success"

(* is_processed that overlooks the failed entries                          *)
is_processed_NotFailed(p, id) == id \in DOMAIN p /\ p[id].status # "failed"

(* ProcessedFilesTracker.is_processed / get_processed_info                 *)
is_processed(p, id) == id \in DOMAIN p
get_processed_info(p, id) == IF id \in DOMAIN p THEN Some(p[id]) ELSE None

(* an entry that leaves out the destination url                            *)
LedgerEntry_NoUrl(v, now) ==
    [name |-> v.name, size |-> v.size,
     youtube_id |-> v.youtube_id, youtube_url |-> None,
     processed_date |-> IF v.processed_date = None THEN now ELSE v.processed_date[1],
     status |-> v.upload_status, error_message |-> v.error_message]

(* The entry mark_processed builds from a VideoFile.                       *)
LedgerEntry(v, now) ==
    [name |-> v.name, size |-> v.size,
     youtube_id |-> v.youtube_id, youtube_url |-> v.youtube_url,
     processed_date |-> IF v.processed_date = None THEN now ELSE v.processed_date[1],
     status |-> v.upload_status, error_message |-> v.error_message]

(* an update that never adds a key                                         *)
Upsert_UpdateOnly(p, id, e) == [k \in DOMAIN p |-> IF k = id THEN e ELSE p[k]]

(* an insert that keeps the entry an id already has                        *)
Upsert_KeepsFirst(p, id, e) ==
    [k \in DOMAIN p \cup {id} |-> IF k \in DOMAIN p THEN p[k] ELSE e]

(* self.processed[video.id] = {...}                                        *)
Upsert(p, id, e) == [k \in DOMAIN p \cup {id} |-> IF k = id THEN e ELSE p[k]]

(* del self.processed[file_id], for a set of ids                           *)
Without(p, ids) == [k \in DOMAIN p \ ids |-> p[k]]

(* _save: copy the file to the backup if it exists, then rewrite it.       *)
(* "ok" returns; the other outcomes raise: "fail_backup" before anything   *)
(* is written, "fail_open" after the backup copy, "fail_write" in the      *)
(* middle of json.dump, leaving a truncated document.                      *)
SaveOutcomes(f) == {"ok", "fail_open", "fail_write"} \cup
                   (IF f.kind = "missing" THEN {} ELSE {"fail_backup"})
SavedBackup(f, b, o) == IF f.kind = "missing" \/ o = "fail_backup" THEN b ELSE f
SavedFile(f, p, o) ==
    CASE o = "ok"         -> JsonFile(JsonDump(p))
      [] o = "fail_write" -> CorruptFile
      [] OTHER            -> f

RECURSIVE SumSizes(_, _)
SumSizes(p, S) ==
    IF S = {} THEN 0
    ELSE LET k == CHOOSE x \in S : TRUE IN p[k].size + SumSizes(p, S \ {k})

(* ProcessedFilesTracker.get_statistics                                    *)
get_statistics(p) ==
    LET total      == Cardinality(DOMAIN p)
        successful == Cardinality({k \in DOMAIN p : p[k].status = "success"})
        failed     == Cardinality({k \in DOMAIN p : p[k].status = "failed"})
    IN  [total_processed |-> total, successful |-> successful,
         failed |-> failed, pending |-> total - successful - failed,
         total_size_bytes |-> SumSizes(p, DOMAIN p)]

(* ProcessedFilesTracker.list_failed                                       *)
list_failed(p) == {k \in DOMAIN p : p[k].status = "failed"}

(* ------------------------------- Init ---------------------------------- *)
NoRun == [cmd |-> "none", skip |-> FALSE, dry |-> FALSE, listed |-> FALSE,
          interrupted |-> FALSE, synced |-> TRUE]

FreshGhosts ==
    /\ attempted   = <<>>
    /\ result      = [i \in VideoIds |-> "none"]
    /\ reached     = [i \in VideoIds |-> ""]
    /\ notifyCalls = [i \in VideoIds |-> 0]
    /\ uploadCalls = 0
    /\ chunkCalls  = 0
    /\ sleeps      = <<>>
    /\ saveFailed  = {}
    /\ removeFailed = {}
    /\ log         = <<>>

NoCall == [op |-> "none"]

Init ==
    /\ dbFile = MissingFile
    /\ backupFile = MissingFile
    /\ scratch = {}
    /\ clock = 0
    /\ ytCount = 0
    /\ runs = 0
    /\ faults = 0
    /\ cmd = "none"
    /\ loaded = "missing"
    /\ \E skipNotion, del, creds \in BOOLEAN :
          cfg = [skip_processed |-> TRUE, DRY_RUN |-> FALSE,
                 SKIP_NOTION |-> skipNotion, DELETE_AFTER_UPLOAD |-> del,
                 notion_enabled |-> (~skipNotion /\ creds)]
    /\ pc = "idle"
    /\ processed = EmptyLedger
    /\ videos = [i \in VideoIds |-> VideoFile(i)]
    /\ idx = 1
    /\ retry = 0
    /\ chunksLeft = 0
    /\ exc = ""
    /\ FreshGhosts
    /\ failedList = {}
    /\ prev = NoRun
    /\ call = NoCall

(* ------------------------- starting a command -------------------------- *)
Cur == IF idx \in VideoIds THEN idx ELSE 1

Summary(listed, interrupted, f, p) ==
    [cmd |-> cmd, skip |-> cfg.skip_processed, dry |-> cfg.DRY_RUN,
     listed |-> listed, interrupted |-> interrupted, synced |-> (Load(f) = p)]

(* A failure of the environment (an API error, an I/O error, an            *)
(* interrupt) is drawn from a bounded budget.                              *)
Fault   == faults < MaxFaults /\ faults' = faults + 1
NoFault == UNCHANGED faults

(* main.py: every command is a process of its own; VideoProcessor.__init__ *)
(* and handle_clear construct a ProcessedFilesTracker, which loads the     *)
(* ledger file.  The environment (SKIP_NOTION, DELETE_AFTER_UPLOAD, the    *)
(* Notion credentials behind NotionHandler.enabled) is the same for every  *)
(* command; skip_processed and DRY_RUN come from the command line.         *)
StartProcess(c, skip, dry) ==
    /\ pc = "idle"
    /\ runs < MaxRuns
    /\ runs' = runs + 1
    /\ clock' = clock + 1
    /\ cmd' = c
    /\ cfg' = [cfg EXCEPT !.skip_processed = skip, !.DRY_RUN = dry]
    /\ \E o \in LoadOutcomes(dbFile) :
          /\ loaded' = o
          /\ processed' = LoadResult(dbFile, o)
          /\ failedList' = IF c = "retry"
                           THEN list_failed(LoadResult(dbFile, o)) ELSE {}
          /\ IF o = "read_error" THEN Fault ELSE NoFault
    /\ pc' = CASE c = "process"      -> "list"
             [] c = "retry"        -> "retry"
             [] c = "clear_failed" -> "clear"
             [] OTHER              -> "clear_all"
    /\ log' = <<>>
    /\ videos' = [i \in VideoIds |-> VideoFile(i)]
    /\ idx' = 1
    /\ retry' = 0
    /\ chunksLeft' = 0
    /\ exc' = ""
    /\ attempted' = <<>>
    /\ result' = [i \in VideoIds |-> "none"]
    /\ reached' = [i \in VideoIds |-> ""]
    /\ notifyCalls' = [i \in VideoIds |-> 0]
    /\ uploadCalls' = 0
    /\ chunkCalls' = 0
    /\ sleeps' = <<>>
    /\ saveFailed' = {}
    /\ removeFailed' = {}
    /\ UNCHANGED <<diskVars, ytCount, prev, call>>

StartProcessVideos ==
    \E skip, dry \in BOOLEAN : StartProcess("process", skip, dry)

StartClearFailed ==
    StartProcess("clear_failed", TRUE, FALSE)

StartClearAll ==
    StartProcess("clear_all", TRUE, FALSE)

(* the retry command; DRY_RUN comes from the environment                   *)
StartRetry ==
    \E dry \in BOOLEAN : StartProcess("retry", TRUE, dry)

(* ------------------------- process_videos ------------------------------ *)
(* videos = self.gdrive.list_videos(folder_id)                             *)
ListVideos ==
    /\ pc = "list"
    /\ pc' = "loop"
    /\ idx' = 1
    /\ NoFault
    /\ UNCHANGED <<diskVars, runVars, ytCount, processed, videos, exc,
                   uploadVars, itemGhosts, prev>>
    /\ UNCHANGED <<log, failedList, call>>

(* a listing error that is answered by listing again                       *)
ListVideosFail_Retries ==
    /\ pc = "list"
    /\ pc' = "list"
    /\ Fault
    /\ UNCHANGED <<diskVars, runVars, ytCount, processed, videos, idx, exc,
                   uploadVars, itemGhosts, prev>>
    /\ UNCHANGED <<log, failedList, call>>

(* list_videos raises: nothing in process_videos catches it                *)
ListVideosFail ==
    /\ pc = "list"
    /\ pc' = "idle"
    /\ prev' = Summary(FALSE, FALSE, dbFile, processed)
    /\ Fault
    /\ UNCHANGED <<diskVars, runVars, ytCount, processed, videos, idx, exc,
                   uploadVars, itemGhosts>>
    /\ UNCHANGED <<log, failedList, call>>

(* if skip_processed and self.tracker.is_processed(video.id): continue     *)
LoopSkip ==
    /\ pc = "loop"
    /\ idx \in VideoIds
    /\ cfg.skip_processed /\ is_processed(processed, idx)
    /\ idx' = idx + 1
    /\ NoFault
    /\ UNCHANGED <<diskVars, runVars, ytCount, pc, processed, videos, exc,
                   uploadVars, itemGhosts, prev>>
    /\ UNCHANGED <<log, failedList, call>>

(* a dry run that processes the item all the same                          *)
LoopDryRun_Processes ==
    /\ pc = "loop"
    /\ idx \in VideoIds
    /\ ~(cfg.skip_processed /\ is_processed(processed, idx))
    /\ cfg.DRY_RUN
    /\ pc' = "download"
    /\ attempted' = Append(attempted, idx)
    /\ NoFault
    /\ UNCHANGED <<diskVars, runVars, ytCount, processed, videos, idx, exc,
                   uploadVars, result, reached, notifyCalls, uploadCalls,
                   saveFailed, removeFailed, prev>>
    /\ UNCHANGED <<log, failedList, call>>

(* if CONFIG["DRY_RUN"]: continue                                          *)
LoopDryRun ==
    /\ pc = "loop"
    /\ idx \in VideoIds
    /\ ~(cfg.skip_processed /\ is_processed(processed, idx))
    /\ cfg.DRY_RUN
    /\ idx' = idx + 1
    /\ NoFault
    /\ UNCHANGED <<diskVars, runVars, ytCount, pc, processed, videos, exc,
                   uploadVars, itemGhosts, prev>>
    /\ UNCHANGED <<log, failedList, call>>

(* self._process_single_video(video)                                       *)
LoopEnter ==
    /\ pc = "loop"
    /\ idx \in VideoIds
    /\ ~(cfg.skip_processed /\ is_processed(processed, idx))
    /\ ~cfg.DRY_RUN
    /\ pc' = "download"
    /\ attempted' = Append(attempted, idx)
    /\ NoFault
    /\ UNCHANGED <<diskVars, runVars, ytCount, processed, videos, idx, exc,
                   uploadVars, result, reached, notifyCalls, uploadCalls,
                   saveFailed, removeFailed, prev>>
    /\ UNCHANGED <<log, failedList, call>>

(* the for loop is exhausted: summary, the process exits                   *)
LoopExit ==
    /\ pc = "loop"
    /\ idx \notin VideoIds
    /\ pc' = "idle"
    /\ prev' = Summary(TRUE, FALSE, dbFile, processed)
    /\ NoFault
    /\ UNCHANGED <<diskVars, runVars, ytCount, processed, videos, idx, exc,
                   uploadVars, itemGhosts>>
    /\ UNCHANGED <<log, failedList, call>>

(* --------------------- _process_single_video --------------------------- *)
(* An exception inside the try block: the except block sets the failure    *)
(* fields of the video before it does anything else.                       *)
Failed_KeepsStatus(v, text) ==
    [v EXCEPT !.error_message = Some(text), !.processed_date = Some(clock)]

Failed(v, text) ==
    [v EXCEPT !.upload_status = "failed", !.error_message = Some(text),
              !.processed_date = Some(clock)]

Raise(text) ==
    /\ exc' = text
    /\ videos' = [videos EXCEPT ![idx] = Failed(@, text)]
    /\ pc' = "fail_notify"

(* a stage of _process_single_video calls into a handler                   *)
Log(stage) == log' = Append(log, <<idx, stage>>)

ResetUpload ==
    /\ retry' = 0
    /\ chunksLeft' = 0
    /\ chunkCalls' = 0
    /\ sleeps' = <<>>

(* process_videos that stops at the first item that raises                 *)
LeaveItem_BreaksOnRaise(how, caught) ==
    /\ result' = [result EXCEPT ![idx] = how]
    /\ reached' = [reached EXCEPT ![idx] = caught]
    /\ idx' = IF how = "raised" THEN NumVideos + 1 ELSE idx + 1
    /\ pc' = "loop"
    /\ exc' = ""
    /\ ResetUpload

(* process_videos that treats a ledger error as fatal                      *)
LeaveItem_LedgerFatal(how, caught) ==
    /\ result' = [result EXCEPT ![idx] = how]
    /\ reached' = [reached EXCEPT ![idx] = caught]
    /\ idx' = IF caught = "LedgerError" THEN NumVideos + 1 ELSE idx + 1
    /\ pc' = "loop"
    /\ exc' = ""
    /\ ResetUpload

(* _process_single_video is left: process_videos counts and goes on        *)
LeaveItem(how, caught) ==
    /\ result' = [result EXCEPT ![idx] = how]
    /\ reached' = [reached EXCEPT ![idx] = caught]
    /\ idx' = idx + 1
    /\ pc' = "loop"
    /\ exc' = ""
    /\ ResetUpload

os_remove_Noop(files, path) == files

(* os.remove(path) on the scratch directory                                *)
os_remove(files, path) == files \ {path}

(* gdrive.download_file returns the local path                             *)
DownloadOk ==
    /\ pc = "download"
    /\ scratch' = scratch \cup {idx}
    /\ videos' = [videos EXCEPT ![idx].local_path = Some(idx)]
    /\ pc' = "upload_start"
    /\ NoFault
    /\ UNCHANGED <<dbFile, backupFile, runVars, ytCount, processed, idx, exc,
                   uploadVars, itemGhosts, prev>>
    /\ Log("download")
    /\ UNCHANGED <<failedList, call>>

(* a download_file whose except clauses leave the partial file             *)
DownloadFail_KeepsFile ==
    /\ pc = "download"
    /\ scratch' = scratch \cup {idx}
    /\ Raise("DownloadError")
    /\ Fault
    /\ UNCHANGED <<dbFile, backupFile, runVars, ytCount, processed, idx,
                   uploadVars, itemGhosts, prev>>
    /\ Log("download")
    /\ UNCHANGED <<failedList, call>>

(* open(local_path, 'wb'): the file exists from then on                    *)
Opened(files, path, opened) == IF opened THEN files \cup {path} ELSE files

(* download_file raises.  A chunk request raises after the local file was  *)
(* opened; mkdir or open raise before.  The except clauses remove the file *)
(* when it exists and re-raise; an os.remove that raises leaves the file   *)
(* and its own exception goes to the caller.  local_path of the video is   *)
(* assigned from the return value only.                                    *)
DownloadFail ==
    /\ pc = "download"
    /\ \E opened, removed \in BOOLEAN :
          LET partial == Opened(scratch, idx, opened) IN
          /\ ~removed => idx \in partial
          /\ scratch' = IF removed THEN os_remove(partial, idx) ELSE partial
          /\ removeFailed' = IF removed THEN removeFailed
                             ELSE removeFailed \cup {idx}
          /\ Raise(IF removed THEN "DownloadError" ELSE "RemoveError")
    /\ Fault
    /\ UNCHANGED <<dbFile, backupFile, runVars, ytCount, processed, idx,
                   uploadVars, attempted, result, reached, notifyCalls,
                   uploadCalls, saveFailed, prev>>
    /\ Log("download")
    /\ UNCHANGED <<failedList, call>>

(* ------------------------ upload_video --------------------------------- *)
(* the local-file check and the set-up of the resumable request            *)
UploadStart ==
    /\ pc = "upload_start"
    /\ uploadCalls' = uploadCalls + 1
    /\ IF videos[idx].local_path = None \/ idx \notin scratch
       THEN /\ Raise("FileNotFoundError")
            /\ UNCHANGED uploadVars
       ELSE /\ \E n \in 1..MaxChunks : chunksLeft' = n
            /\ retry' = 0
            /\ chunkCalls' = 0
            /\ sleeps' = <<>>
            /\ pc' = "upload"
            /\ UNCHANGED <<videos, exc>>
    /\ NoFault
    /\ UNCHANGED <<diskVars, runVars, ytCount, processed, idx, attempted, result,
                   reached, notifyCalls, saveFailed, removeFailed, prev>>
    /\ Log("upload")
    /\ UNCHANGED <<failedList, call>>

UploadFrame ==
    UNCHANGED <<diskVars, runVars, processed, idx, itemGhosts, log, failedList,
                prev, call>>

(* a chunk that starts a new error streak                                  *)
ChunkProgress_ResetsRetry ==
    /\ pc = "upload"
    /\ chunksLeft > 1
    /\ chunksLeft' = chunksLeft - 1
    /\ chunkCalls' = chunkCalls + 1
    /\ retry' = 0
    /\ sleeps' = <<>>
    /\ NoFault
    /\ UploadFrame
    /\ UNCHANGED <<ytCount, pc, videos, exc>>

(* status, response = request.next_chunk() with response None              *)
(* the retry counter is not touched                                        *)
ChunkProgress ==
    /\ pc = "upload"
    /\ chunksLeft > 1
    /\ chunksLeft' = chunksLeft - 1
    /\ chunkCalls' = chunkCalls + 1
    /\ NoFault
    /\ UploadFrame
    /\ UNCHANGED <<ytCount, pc, videos, retry, exc, sleeps>>

(* an upload after which the notifier step is left out                     *)
ChunkFinal_SkipsNotify ==
    /\ pc = "upload"
    /\ chunksLeft = 1
    /\ ytCount' = ytCount + 1
    /\ videos' = [videos EXCEPT ![idx].youtube_id = Some(ytCount'),
                                ![idx].youtube_url = Some(VideoUrl(ytCount')),
                                ![idx].upload_status = "success",
                                ![idx].processed_date = Some(clock)]
    /\ pc' = "record"
    /\ ResetUpload
    /\ NoFault
    /\ UploadFrame
    /\ UNCHANGED exc

(* the last chunk: the response carries the id; back in                    *)
(* _process_single_video the id, the url and the status are stored         *)
ChunkFinal ==
    /\ pc = "upload"
    /\ chunksLeft = 1
    /\ ytCount' = ytCount + 1
    /\ videos' = [videos EXCEPT ![idx].youtube_id = Some(ytCount'),
                                ![idx].youtube_url = Some(VideoUrl(ytCount')),
                                ![idx].upload_status = "success",
                                ![idx].processed_date = Some(clock)]
    /\ pc' = "notify"
    /\ ResetUpload
    /\ NoFault
    /\ UploadFrame
    /\ UNCHANGED exc

(* the last chunk answers with an empty body: the loop ends and            *)
(* "Upload failed: No response received" is raised                         *)
ChunkNoResponse ==
    /\ pc = "upload"
    /\ chunksLeft = 1
    /\ Raise("UploadError")
    /\ ResetUpload
    /\ Fault
    /\ UploadFrame
    /\ UNCHANGED ytCount

(* a handler that retries the whole 5xx class                              *)
Retryable_Any5xx(status) == status \in 500..599

Retryable(status) == status \in RetryableStatuses
BudgetExceeded_OffByOne(r) == r >= MAX_RETRIES
BudgetExceeded(r) == r > MAX_RETRIES
(* a wait that grows by two seconds per retry                              *)
WaitTime_Linear(r) == 2 * r
WaitTime(r) == 2 ^ r

(* "except HttpError as e" when `r` errors were retried before: the new    *)
(* value of retry, and either the sleep before the next next_chunk call    *)
(* or the raise                                                            *)
HttpErrorOutcome(status, r) ==
    IF Retryable(status)
    THEN IF BudgetExceeded(r + 1)
         THEN [act |-> "raise", retry |-> r + 1, wait |-> 0]
         ELSE [act |-> "sleep", retry |-> r + 1, wait |-> WaitTime(r + 1)]
    ELSE [act |-> "raise", retry |-> r, wait |-> 0]

(* next_chunk raises HttpError: a retryable status is retried after a      *)
(* sleep until the budget is exceeded, any other status is raised          *)
ChunkHttpError(status) ==
    /\ pc = "upload"
    /\ chunksLeft >= 1
    /\ IF Retryable(status)
       THEN IF BudgetExceeded(retry + 1)
            THEN /\ Raise("HttpError 5xx")
                 /\ ResetUpload
                 /\ NoFault
            ELSE /\ retry' = retry + 1
                 /\ chunkCalls' = chunkCalls + 1
                 /\ sleeps' = Append(sleeps, WaitTime(retry'))
                 /\ NoFault
                 /\ UNCHANGED <<pc, videos, exc, chunksLeft>>
       ELSE /\ Raise("UploadError")
            /\ ResetUpload
            /\ Fault
    /\ UploadFrame
    /\ UNCHANGED ytCount

(* an exception of next_chunk that only costs another next_chunk call      *)
ChunkException_Retries ==
    /\ pc = "upload"
    /\ chunksLeft >= 1
    /\ chunkCalls' = chunkCalls + 1
    /\ Fault
    /\ UploadFrame
    /\ UNCHANGED <<ytCount, pc, videos, retry, exc, chunksLeft, sleeps>>

(* next_chunk raises something that is not an HttpError                    *)
ChunkException ==
    /\ pc = "upload"
    /\ chunksLeft >= 1
    /\ Raise("UploadError")
    /\ ResetUpload
    /\ Fault
    /\ UploadFrame
    /\ UNCHANGED ytCount

(* ----------------------------- notifier -------------------------------- *)
(* NotionHandler.create_entry: None when disabled, the response when the   *)
(* request succeeds, None when it raises a RequestException; any other     *)
(* exception leaves create_entry.                                          *)
CreateEntryOutcomes == IF cfg.notion_enabled
                       THEN {"ok", "request_exception", "other_exception"}
                       ELSE {"disabled"}
CreateEntryRaises(o) == o = "other_exception"

(* Step 3 of the try block                                                 *)
Notify ==
    /\ pc = "notify"
    /\ IF cfg.SKIP_NOTION
       THEN /\ pc' = "record"
            /\ NoFault
            /\ UNCHANGED <<notifyCalls, videos, exc>>
       ELSE /\ notifyCalls' = [notifyCalls EXCEPT ![idx] = @ + 1]
            /\ \E o \in CreateEntryOutcomes :
                /\ IF o \in {"ok", "disabled"} THEN NoFault ELSE Fault
                /\ IF CreateEntryRaises(o)
                   THEN Raise("NotifierError")
                   ELSE /\ pc' = "record"
                        /\ UNCHANGED <<videos, exc>>
    /\ UNCHANGED <<diskVars, runVars, ytCount, processed, idx, uploadVars,
                   attempted, result, reached, uploadCalls, saveFailed,
                   removeFailed, prev>>
    /\ IF cfg.SKIP_NOTION THEN UNCHANGED log ELSE Log("notify")
    /\ UNCHANGED <<failedList, call>>

(* ProcessedFilesTracker.mark_processed: upsert, then _save                *)
mark_processed(o) ==
    /\ processed' = Upsert(processed, idx, LedgerEntry(videos[idx], clock))
    /\ dbFile' = SavedFile(dbFile, processed', o)
    /\ backupFile' = SavedBackup(dbFile, backupFile, o)
    /\ IF o = "ok" THEN NoFault ELSE Fault

(* self.tracker.mark_processed(video) of the try block                     *)
Record ==
    /\ pc = "record"
    /\ \E o \in SaveOutcomes(dbFile) :
        /\ mark_processed(o)
        /\ IF o = "ok"
           THEN /\ pc' = "cleanup"
                /\ UNCHANGED <<videos, exc, saveFailed>>
           ELSE /\ Raise("LedgerError")
                /\ saveFailed' = saveFailed \cup {idx}
    /\ UNCHANGED <<scratch, runVars, ytCount, idx, uploadVars, attempted, result,
                   reached, notifyCalls, uploadCalls, removeFailed, prev>>
    /\ Log("record")
    /\ UNCHANGED <<failedList, call>>

(* "Clean up temp file" of the try block, then the normal return           *)
Cleanup ==
    /\ pc = "cleanup"
    /\ IF cfg.DELETE_AFTER_UPLOAD /\ videos[idx].local_path # None /\ idx \in scratch
       THEN \E removed \in BOOLEAN :
              IF removed
              THEN /\ scratch' = os_remove(scratch, idx)
                   /\ LeaveItem("returned", "")
                   /\ NoFault
                   /\ UNCHANGED <<videos, removeFailed>>
              ELSE /\ Raise("RemoveError")
                   /\ removeFailed' = removeFailed \cup {idx}
                   /\ Fault
                   /\ UNCHANGED <<scratch, result, reached, idx, uploadVars>>
       ELSE /\ LeaveItem("returned", "")
            /\ NoFault
            /\ UNCHANGED <<scratch, videos, removeFailed>>
    /\ UNCHANGED <<dbFile, backupFile, runVars, ytCount, processed, attempted,
                   notifyCalls, uploadCalls, saveFailed, prev>>
    /\ IF cfg.DELETE_AFTER_UPLOAD /\ videos[idx].local_path # None /\ idx \in scratch
       THEN Log("delete") ELSE UNCHANGED log
    /\ UNCHANGED <<failedList, call>>

(* ---------------------------- except block ----------------------------- *)
(* "Still update Notion with failure status": try/except: pass             *)
FailNotify ==
    /\ pc = "fail_notify"
    /\ pc' = "fail_record"
    /\ IF cfg.SKIP_NOTION
       THEN /\ NoFault
            /\ UNCHANGED notifyCalls
       ELSE /\ notifyCalls' = [notifyCalls EXCEPT ![idx] = @ + 1]
            /\ \E o \in CreateEntryOutcomes :
                 IF o \in {"ok", "disabled"} THEN NoFault ELSE Fault
    /\ UNCHANGED <<diskVars, runVars, ytCount, processed, videos, idx, exc,
                   uploadVars, attempted, result, reached, uploadCalls,
                   saveFailed, removeFailed, prev>>
    /\ IF cfg.SKIP_NOTION THEN UNCHANGED log ELSE Log("notify")
    /\ UNCHANGED <<failedList, call>>

(* mark_processed with the failed status; a _save error leaves the except  *)
(* block at once and is what process_videos catches                        *)
FailRecord ==
    /\ pc = "fail_record"
    /\ \E o \in SaveOutcomes(dbFile) :
        /\ mark_processed(o)
        /\ IF o = "ok"
           THEN /\ pc' = "fail_cleanup"
                /\ UNCHANGED <<exc, saveFailed, result, reached, idx, uploadVars>>
           ELSE /\ saveFailed' = saveFailed \cup {idx}
                /\ LeaveItem("raised", "LedgerError")
    /\ UNCHANGED <<scratch, runVars, ytCount, videos, attempted, notifyCalls,
                   uploadCalls, removeFailed, prev>>
    /\ Log("record")
    /\ UNCHANGED <<failedList, call>>

(* remove the scratch file if it exists (errors swallowed), then re-raise  *)
FailCleanup ==
    /\ pc = "fail_cleanup"
    /\ IF videos[idx].local_path # None /\ idx \in scratch
       THEN \E removed \in BOOLEAN :
              /\ scratch' = IF removed THEN os_remove(scratch, idx) ELSE scratch
              /\ removeFailed' = IF removed THEN removeFailed
                                 ELSE removeFailed \cup {idx}
              /\ IF removed THEN NoFault ELSE Fault
       ELSE /\ NoFault
            /\ UNCHANGED <<scratch, removeFailed>>
    /\ LeaveItem("raised", exc)
    /\ UNCHANGED <<dbFile, backupFile, runVars, ytCount, processed, videos,
                   attempted, notifyCalls, uploadCalls, saveFailed, prev>>
    /\ IF videos[idx].local_path # None /\ idx \in scratch
       THEN Log("delete") ELSE UNCHANGED log
    /\ UNCHANGED <<failedList, call>>

(* KeyboardInterrupt: not an Exception, so the except block of             *)
(* _process_single_video does not run; process_videos breaks out of the    *)
(* loop.  Inside the two bare "except:" clauses it is swallowed like any   *)
(* other error of that step.                                               *)
InterruptiblePcs == {"download", "upload_start", "upload", "notify", "record",
                     "cleanup", "fail_record"}

Interrupt ==
    /\ pc \in InterruptiblePcs
    /\ result' = [result EXCEPT ![idx] = "interrupted"]
    /\ pc' = "idle"
    /\ exc' = ""
    /\ ResetUpload
    /\ prev' = Summary(TRUE, TRUE, dbFile, processed)
    /\ Fault
    /\ \E opened \in BOOLEAN :
          scratch' = IF pc = "download" THEN Opened(scratch, idx, opened)
                     ELSE scratch
    /\ UNCHANGED <<dbFile, backupFile, runVars, ytCount, processed, videos, idx,
                   attempted, reached, notifyCalls, uploadCalls, saveFailed,
                   removeFailed>>
    /\ UNCHANGED <<log, failedList, call>>

(* ------------------------------ clear ---------------------------------- *)
clear_failed_All(p) == Without(p, DOMAIN p)

(* ProcessedFilesTracker.clear_failed                                      *)
clear_failed(p) == Without(p, list_failed(p))

(* handle_clear --failed                                                   *)
ClearFailed ==
    /\ pc = "clear"
    /\ cmd = "clear_failed"
    /\ processed' = clear_failed(processed)
    /\ IF list_failed(processed) # {}
       THEN \E o \in SaveOutcomes(dbFile) :
              /\ dbFile' = SavedFile(dbFile, processed', o)
              /\ backupFile' = SavedBackup(dbFile, backupFile, o)
              /\ saveFailed' = IF o = "ok" THEN saveFailed ELSE list_failed(processed)
              /\ IF o = "ok" THEN NoFault ELSE Fault
       ELSE /\ NoFault
            /\ UNCHANGED <<dbFile, backupFile, saveFailed>>
    /\ pc' = "idle"
    /\ prev' = Summary(FALSE, FALSE, dbFile', processed')
    /\ UNCHANGED <<scratch, runVars, ytCount, videos, idx, exc, uploadVars,
                   attempted, result, reached, notifyCalls, uploadCalls,
                   removeFailed>>
    /\ UNCHANGED <<log, failedList, call>>

(* ------------------------------ retry ---------------------------------- *)
(* a remove_processed that leaves the entry where it is                    *)
remove_processed_Keeps(p, id) == p

(* ProcessedFilesTracker.remove_processed, the in-memory part              *)
remove_processed(p, id) == IF id \in DOMAIN p THEN Without(p, {id}) ELSE p

(* retry_failed: "No failed uploads to retry", return                      *)
RetryNothing ==
    /\ pc = "retry"
    /\ failedList = {}
    /\ pc' = "idle"
    /\ prev' = Summary(FALSE, FALSE, dbFile, processed)
    /\ NoFault
    /\ UNCHANGED <<diskVars, runVars, ytCount, processed, videos, idx, exc,
                   uploadVars, itemGhosts, log, failedList, call>>

(* one turn of "for item in failed": remove_processed deletes the entry    *)
(* and saves; a _save error leaves retry_failed and ends the command;      *)
(* after the last turn process_videos(skip_processed=True) is called       *)
RetryRemove ==
    /\ pc = "retry"
    /\ LET rest == failedList \cap DOMAIN processed
       IN  /\ rest # {}
           /\ LET id == CHOOSE x \in rest : \A y \in rest : x <= y
              IN  \E o \in SaveOutcomes(dbFile) :
                    /\ processed' = remove_processed(processed, id)
                    /\ dbFile' = SavedFile(dbFile, processed', o)
                    /\ backupFile' = SavedBackup(dbFile, backupFile, o)
                    /\ IF o = "ok"
                       THEN /\ pc' = IF rest = {id} THEN "list" ELSE "retry"
                            /\ NoFault
                            /\ UNCHANGED <<saveFailed, prev>>
                       ELSE /\ pc' = "idle"
                            /\ saveFailed' = saveFailed \cup {id}
                            /\ prev' = Summary(FALSE, FALSE, dbFile', processed')
                            /\ Fault
    /\ UNCHANGED <<scratch, runVars, ytCount, videos, idx, exc, uploadVars,
                   attempted, result, reached, notifyCalls, uploadCalls,
                   removeFailed, log, failedList, call>>

(* ---------------------------- clear --all ------------------------------ *)
(* open(PROCESSED_FILES_DB, 'w') and f.write("{}"): "fail_open" raises     *)
(* before the file is touched, "fail_write" after it was truncated         *)
ClearAllOutcomes == {"ok", "fail_open", "fail_write"}
ClearAllFile(f, o) ==
    CASE o = "ok"         -> JsonFile(JsonDump(EmptyLedger))
      [] o = "fail_write" -> CorruptFile
      [] OTHER            -> f

(* handle_clear --all: asks for confirmation, then rewrites the file       *)
ClearAll ==
    /\ pc = "clear_all"
    /\ \E confirmed \in BOOLEAN :
         IF confirmed
         THEN \E o \in ClearAllOutcomes :
                /\ dbFile' = ClearAllFile(dbFile, o)
                /\ IF o = "ok" THEN NoFault ELSE Fault
         ELSE /\ NoFault
              /\ UNCHANGED dbFile
    /\ pc' = "idle"
    /\ prev' = Summary(FALSE, FALSE, dbFile', processed)
    /\ UNCHANGED <<backupFile, scratch, runVars, ytCount, processed, videos, idx,
                   exc, uploadVars, itemGhosts, log, failedList, call>>

(* ------------------------------- Spec ---------------------------------- *)
Next ==
    \/ StartProcessVideos
    \/ StartClearFailed
    \/ StartClearAll
    \/ StartRetry
    \/ ListVideos
    \/ ListVideosFail
    \/ LoopSkip
    \/ LoopDryRun
    \/ LoopEnter
    \/ LoopExit
    \/ DownloadOk
    \/ DownloadFail
    \/ UploadStart
    \/ ChunkProgress
    \/ ChunkFinal
    \/ ChunkNoResponse
    \/ \E status \in HttpStatuses : ChunkHttpError(status)
    \/ ChunkException
    \/ Notify
    \/ Record
    \/ Cleanup
    \/ FailNotify
    \/ FailRecord
    \/ FailCleanup
    \/ Interrupt
    \/ ClearFailed
    \/ RetryNothing
    \/ RetryRemove
    \/ ClearAll

Spec == Init /\ [][Next]_vars

(* ---------------------- the functions on their own --------------------- *)
(* The name filter, the upload metadata and the failure record are pure    *)
(* functions of their arguments; FnSpec applies them to arguments drawn    *)
(* from the sets below, one call per history, with the pipeline at rest.   *)
Chars(n)  == [k \in 1..n |-> k % 10]
Lengths(limit) ==
    {0, 1, limit - 1, limit, 2 * limit} \cup {limit + k : k \in 1..MaxOver}

FileNames == {<<"a">>, <<"b">>, <<"a", "b">>, <<"A", "B">>, <<"b", ".", "a">>}
Filters   == {<<>>, <<"a">>, <<"b">>, <<"A">>, <<"a", "b">>, <<"b", "a">>}
Listings  == UNION {[1..n -> FileNames] : n \in 0..MaxNames}

Listed(names) == [k \in DOMAIN names |-> [VideoFile(k) EXCEPT !.name = names[k]]]

(* NotionHandler._build_properties: the properties that depend on the      *)
(* outcome of the item                                                     *)
build_properties_WholeText(v, now) ==
    [Title |-> Take(v.name, NAME_LIMIT),
     Status |-> v.upload_status,
     YouTubeURL |-> v.youtube_url,
     YouTubeID |-> v.youtube_id,
     UploadDate |-> IF v.processed_date # None THEN v.processed_date
                    ELSE IF v.upload_status = "success" THEN Some(now) ELSE None,
     ErrorMessage |-> v.error_message]

build_properties(v, now) ==
    [Title |-> Take(v.name, NAME_LIMIT),
     Status |-> v.upload_status,
     YouTubeURL |-> v.youtube_url,
     YouTubeID |-> v.youtube_id,
     UploadDate |-> IF v.processed_date # None THEN v.processed_date
                    ELSE IF v.upload_status = "success" THEN Some(now) ELSE None,
     ErrorMessage |-> IF v.error_message = None \/ Falsy(v.error_message[1])
                      THEN None
                      ELSE Some(Take(v.error_message[1], ERROR_LIMIT))]

(* videos = [v for v in videos if video_filter.lower() in v.name.lower()]  *)
ApplyFilter ==
    /\ pc = "idle"
    /\ call = NoCall
    /\ \E names \in Listings, video_filter \in Filters :
         call' = [op |-> "filter", videos |-> Listed(names),
                  video_filter |-> video_filter,
                  ret |-> FilterVideos(Listed(names), video_filter)]
    /\ UNCHANGED <<diskVars, runVars, ytCount, faults, pc, processed, videos, idx,
                   exc, uploadVars, itemGhosts, log, failedList, prev>>

(* upload_video(video_file, title, description, tags) up to the request    *)
PrepareMetadata ==
    /\ pc = "idle"
    /\ call = NoCall
    /\ \E name \in FileNames, nt \in Lengths(TITLE_LIMIT),
          nd \in Lengths(DESCRIPTION_LIMIT), ng \in Lengths(TAGS_LIMIT),
          nc \in {0, 1} :
         call' = [op |-> "snippet", name |-> name, title |-> Chars(nt),
                  description |-> Chars(nd), tags |-> Chars(ng),
                  default_tags |-> Chars(nc),
                  ret |-> Snippet(name, Chars(nt), Chars(nd), Chars(ng),
                                  Chars(nc), clock)]
    /\ UNCHANGED <<diskVars, runVars, ytCount, faults, pc, processed, videos, idx,
                   exc, uploadVars, itemGhosts, log, failedList, prev>>

(* the except block of _process_single_video for an exception whose text   *)
(* is str(e): the failure fields, the notifier payload, the ledger entry   *)
RecordFailure ==
    /\ pc = "idle"
    /\ call = NoCall
    /\ \E name \in FileNames, n \in Lengths(ERROR_LIMIT), uploaded \in BOOLEAN :
         LET v0 == [VideoFile(1) EXCEPT !.name = name, !.local_path = Some(1)]
             v1 == IF uploaded
                   THEN [v0 EXCEPT !.youtube_id = Some(1),
                                   !.youtube_url = Some(VideoUrl(1)),
                                   !.upload_status = "success",
                                   !.processed_date = Some(clock)]
                   ELSE v0
             v  == Failed(v1, Chars(n))
         IN  call' = [op |-> "failure", text |-> Chars(n), video |-> v,
                      properties |-> build_properties(v, clock),
                      entry |-> LedgerEntry(v, clock)]
    /\ UNCHANGED <<diskVars, runVars, ytCount, faults, pc, processed, videos, idx,
                   exc, uploadVars, itemGhosts, log, failedList, prev>>

(* the statuses an HttpError can carry                                     *)
ErrorStatuses == 400..599

(* one pass through "except HttpError as e" of the upload loop             *)
HandleHttpError ==
    /\ pc = "idle"
    /\ call = NoCall
    /\ \E status \in ErrorStatuses, r \in 0..MAX_RETRIES :
         call' = [op |-> "http_error", status |-> status, retry |-> r,
                  ret |-> HttpErrorOutcome(status, r)]
    /\ UNCHANGED <<diskVars, runVars, ytCount, faults, pc, processed, videos, idx,
                   exc, uploadVars, itemGhosts, log, failedList, prev>>

(* GoogleDriveHandler.list_videos against a source of pages.  A source     *)
(* answers a request by its pageToken (None for the first request) with    *)
(* the files of a page and, possibly, a nextPageToken.  The files of a     *)
(* result are kept as their ids.                                           *)
PageTokens == {None} \cup {Some(t) : t \in 1..MaxPages}
PageFiles(t, n) == [k \in 1..n |-> 2 * (IF t = None THEN 0 ELSE t[1]) + k]
Sources == {[t \in PageTokens |-> [files |-> PageFiles(t, n[t]),
                                   nextPageToken |-> next[t]]] :
               n \in [PageTokens -> 0..2], next \in [PageTokens -> PageTokens]}

(* the "while True" loop: one request per pass, the files appended in      *)
(* response order, left when the response has no token.  A source with     *)
(* MaxPages tokens that has answered MaxPages + 1 requests with a token    *)
(* has handed one out twice and keeps doing so: the loop does not return.  *)
RECURSIVE ListLoop(_, _, _, _)
ListLoop(source, page_token, videos_, requests) ==
    IF requests = MaxPages + 1
    THEN [returned |-> FALSE, videos |-> videos_, requests |-> requests]
    ELSE LET response == source[page_token]
             appended == videos_ \o response.files
         IN  IF Falsy(response.nextPageToken)
             THEN [returned |-> TRUE, videos |-> appended,
                   requests |-> requests + 1]
             ELSE ListLoop(source, response.nextPageToken, appended,
                           requests + 1)

(* a listing that stops after the first page                               *)
list_videos_FirstPage(source) ==
    [returned |-> TRUE, videos |-> source[None].files, requests |-> 1]

list_videos(source) == ListLoop(source, None, <<>>, 0)

ListPages ==
    /\ pc = "idle"
    /\ call = NoCall
    /\ \E source \in Sources :
         call' = [op |-> "list_videos", source |-> source,
                  ret |-> list_videos(source)]
    /\ UNCHANGED <<diskVars, runVars, ytCount, faults, pc, processed, videos, idx,
                   exc, uploadVars, itemGhosts, log, failedList, prev>>

FnInit ==
    /\ Init
    /\ ~cfg.SKIP_NOTION /\ cfg.notion_enabled /\ cfg.DELETE_AFTER_UPLOAD

FnNext ==
    \/ ApplyFilter
    \/ PrepareMetadata
    \/ RecordFailure
    \/ HandleHttpError
    \/ ListPages

FnSpec == FnInit /\ [][FnNext]_vars

(* ============================== claims ================================= *)
Range(seq) == {seq[k] : k \in DOMAIN seq}
Finished(i) == result[i] \in {"returned", "raised"}

(* A process_videos run with skip_processed=true that follows a completed  *)
(* run with skip_processed=true (not dry-run, not interrupted).            *)
SecondRun ==
    /\ pc # "idle"
    /\ cmd = "process"
    /\ cfg.skip_processed
    /\ prev.cmd = "process"
    /\ prev.skip /\ ~prev.dry /\ prev.listed /\ ~prev.interrupted

C2_LoopBounded ==
    pc = "upload" =>
        /\ retry <= MAX_RETRIES
        /\ Len(sleeps) = retry
        /\ chunksLeft >= 1
        /\ chunkCalls <= (MaxChunks - chunksLeft) + retry

C2_LoopExit ==
    (pc = "upload" /\ pc' # "upload") =>
        \/ pc' = "notify" /\ videos'[idx].youtube_id # None
        \/ pc' = "fail_notify" /\ exc' = "HttpError 5xx" /\ retry = MAX_RETRIES
        \/ pc' = "fail_notify" /\ exc' = "UploadError"
        \/ pc' = "idle" /\ result'[idx] = "interrupted"

C2_EndsFailed ==
    \A i \in VideoIds :
        videos[i].error_message = Some("HttpError 5xx") =>
            /\ videos[i].upload_status = "failed"
            /\ videos[i].youtube_id = None
            /\ result[i] = "raised" =>
                  is_processed(processed, i) /\ processed[i].status = "failed"

C2_RetryBound == []C2_LoopBounded /\ [][C2_LoopExit]_vars /\ []C2_EndsFailed

C2_Witness ==
    \E i \in VideoIds :
        /\ result[i] = "raised"
        /\ videos[i].error_message = Some("HttpError 5xx")
        /\ processed[i].status = "failed"

(* C3: every item whose _process_single_video returned or raised has a     *)
(* ledger entry under its id with status success or failed.                *)
C3_FinishedIsRecorded ==
    \A i \in VideoIds :
        Finished(i) =>
            /\ is_processed(processed, i)
            /\ processed[i].status \in {"success", "failed"}

C3_Witness ==
    \E i, j \in VideoIds :
        /\ result[i] = "returned" /\ processed[i].status = "success"
        /\ result[j] = "raised" /\ processed[j].status = "failed"

(* C4: when mark_processed returns, a tracker constructed afresh on the    *)
(* file has the item with the status, youtube_id and youtube_url written,  *)
(* and every other entry as it was.                                        *)
C4_MarkReturns ==
    \/ pc = "record" /\ pc' = "cleanup"
    \/ pc = "fail_record" /\ pc' = "fail_cleanup"

C5_NotifierHarmless ==
    \A i \in VideoIds :
        (Finished(i) /\ videos[i].youtube_id # None
                     /\ i \notin saveFailed /\ i \notin removeFailed) =>
            /\ processed[i].status = "success"
            /\ reached[i] = ""

(* C6 as claimed: a ledger entry with status success means the item's      *)
(* scratch file does not exist, in every reachable state.                  *)
C6_SuccessMeansNoScratch_Original ==
    \A i \in DOMAIN processed :
        processed[i].status = "success" => i \notin scratch

(* C6, amended: once _process_single_video has returned normally for an    *)
(* item and DELETE_AFTER_UPLOAD is set, the ledger holds status success    *)
(* for the item and its scratch file does not exist.                       *)
C6_ReturnedMeansNoScratch ==
    \A i \in VideoIds :
        (result[i] = "returned" /\ cfg.DELETE_AFTER_UPLOAD) =>
            /\ is_processed(processed, i)
            /\ processed[i].status = "success"
            /\ i \notin scratch

C6_Witness ==
    /\ cfg.DELETE_AFTER_UPLOAD
    /\ \E i \in VideoIds : result[i] = "returned" /\ videos[i].local_path # None
    /\ scratch = {}

(* The items whose exception came from download_file or upload_video.      *)
TransferFailed(i) ==
    /\ result[i] = "raised"
    /\ videos[i].error_message \in
          {Some("DownloadError"), Some("UploadError"), Some("HttpError 5xx")}

(* C7 as claimed: after an exception of download_file or upload_video the  *)
(* item is failed with the exception text, the notifier was invoked once,  *)
(* the ledger holds a failed entry and the scratch file is gone.           *)
C7_FailurePath_Original ==
    \A i \in VideoIds :
        TransferFailed(i) =>
            /\ videos[i].upload_status = "failed"
            /\ notifyCalls[i] = 1
            /\ is_processed(processed, i) /\ processed[i].status = "failed"
            /\ i \notin scratch

(* C7, amended: after an exception of download_file or upload_video the    *)
(* item is failed with the exception text, the notifier was invoked once   *)
(* unless SKIP_NOTION is set (then not at all), the in-memory ledger holds *)
(* a failed entry with that text, and the scratch file is gone unless the  *)
(* ledger write raised (the clean-up is then skipped) or os.remove raised. *)
C7_FailurePath ==
    \A i \in VideoIds :
        TransferFailed(i) =>
            /\ videos[i].upload_status = "failed"
            /\ notifyCalls[i] = (IF cfg.SKIP_NOTION THEN 0 ELSE 1)
            /\ is_processed(processed, i)
            /\ processed[i].status = "failed"
            /\ processed[i].error_message = videos[i].error_message
            /\ i \in scratch => i \in saveFailed \cup removeFailed

C7_Witness ==
    \E i, j \in VideoIds :
        /\ TransferFailed(i) /\ videos[i].local_path = None
        /\ TransferFailed(j) /\ videos[j].local_path # None
        /\ notifyCalls[i] = 1 /\ notifyCalls[j] = 1
        /\ scratch = {}

(* Item j was taken up by the loop: handed to _process_single_video, or    *)
(* skipped because it is in the ledger.                                    *)
TakenUp(j) ==
    j \in Range(attempted) \/ (cfg.skip_processed /\ is_processed(processed, j))

(* C8: after _process_single_video raised for an item the loop goes on:    *)
(* every later item is taken up, in list order, until the list ends.       *)
C8_RunContinues ==
    cmd = "process" =>
        /\ \A k \in 1..(Len(attempted) - 1) : attempted[k] < attempted[k + 1]
        /\ \A i \in VideoIds :
              result[i] = "raised" =>
                 /\ idx > i
                 /\ \A j \in (i + 1)..(idx - 1) : TakenUp(j)
                 /\ (pc = "idle" /\ ~prev.interrupted) => idx = NumVideos + 1

C8_Witness ==
    /\ result[1] = "raised"
    /\ attempted = <<1, 2>>
    /\ pc = "idle" /\ ~prev.interrupted

(* C9 as claimed: after a _save error for an item no later item is         *)
(* downloaded or uploaded.                                                 *)
C9_LedgerErrorFatal_Original ==
    cmd = "process" =>
        \A i \in saveFailed : \A j \in Range(attempted) : j <= i

(* C9, amended: a _save error is not fatal to the run.  In the try block   *)
(* it marks the item failed; in the except block it leaves                 *)
(* _process_single_video, process_videos catches it, and the loop takes    *)
(* up every later item.                                                    *)
C9_LedgerErrorNotFatal ==
    cmd = "process" =>
        \A i \in saveFailed :
            /\ videos[i].upload_status = "failed"
            /\ is_processed(processed, i)
            /\ Finished(i) => result[i] = "raised" /\ processed[i].status = "failed"
            /\ reached[i] = "LedgerError" =>
                 /\ result[i] = "raised"
                 /\ idx > i
                 /\ \A j \in (i + 1)..(idx - 1) : TakenUp(j)
                 /\ (pc = "idle" /\ ~prev.interrupted) => idx = NumVideos + 1

C9_Witness ==
    /\ cmd = "process"
    /\ reached[1] = "LedgerError"
    /\ attempted = <<1, 2>>
    /\ Finished(2)

(* C10 as claimed: clear_failed removes exactly the failed entries and     *)
(* get_statistics then reports failed = 0 and every other count as before. *)
C10_ClearStep == pc = "clear" /\ pc' = "idle"

C10_ClearFailed_Original ==
    [][C10_ClearStep =>
        LET a == get_statistics(processed)
            b == get_statistics(processed')
        IN  /\ DOMAIN processed' = DOMAIN processed \ list_failed(processed)
            /\ \A k \in DOMAIN processed' : processed'[k] = processed[k]
            /\ b.failed = 0
            /\ b.successful = a.successful
            /\ b.pending = a.pending
            /\ b.total_processed = a.total_processed
            /\ b.total_size_bytes = a.total_size_bytes]_vars

(* C10, amended: clear_failed removes exactly the failed entries and       *)
(* leaves every other entry unchanged; get_statistics then reports         *)
(* failed = 0, successful and pending as before, total_processed reduced   *)
(* by the number of entries removed and total_size_bytes by their sizes.   *)
C10_ClearFailed ==
    [][C10_ClearStep =>
        LET a == get_statistics(processed)
            b == get_statistics(processed')
            failed_ids == list_failed(processed)
        IN  /\ DOMAIN processed' = DOMAIN processed \ failed_ids
            /\ \A k \in DOMAIN processed' : processed'[k] = processed[k]
            /\ b.failed = 0
            /\ b.successful = a.successful
            /\ b.pending = a.pending
            /\ b.total_processed = a.total_processed - a.failed
            /\ b.total_size_bytes =
                  a.total_size_bytes - SumSizes(processed, failed_ids)]_vars

C10_Witness ==
    /\ cmd = "clear_failed" /\ pc = "idle"
    /\ list_failed(Load(backupFile)) # {}
    /\ Load(dbFile) = processed
    /\ get_statistics(processed).successful = 1
    /\ get_statistics(processed).failed = 0

(* ------------------------ C11: the name filter ------------------------- *)
Fold(c) == IF c \in {"a", "A"} THEN "a" ELSE IF c \in {"b", "B"} THEN "b" ELSE c

(* name contains f as a substring, compared case-insensitively             *)
NameMatches(f, name) ==
    \E start \in 1..(Len(name) - Len(f) + 1) :
        \A k \in 1..Len(f) : Fold(name[start + k - 1]) = Fold(f[k])

Kept(vs, f) == {k \in DOMAIN vs : NameMatches(f, vs[k].name)}

(* C11: for every listing and every non-empty filter string the items      *)
(* that remain are exactly those whose name contains the filter as a       *)
(* substring, compared case-insensitively, in their original order.        *)
C11_NameFilter ==
    (call.op = "filter" /\ call.video_filter # <<>>) =>
        LET kept == Kept(call.videos, call.video_filter)
        IN  /\ Len(call.ret) = Cardinality(kept)
            /\ \A k \in kept :
                  call.ret[Cardinality({m \in kept : m <= k})] = call.videos[k]

C11_Witness ==
    /\ call.op = "filter"
    /\ [k \in DOMAIN call.videos |-> call.videos[k].name]
          = <<(<<"a">>), (<<"b">>), (<<"A", "B">>)>>
    /\ call.video_filter = <<"a">>
    /\ [k \in DOMAIN call.ret |-> call.ret[k].name] = <<(<<"a">>), (<<"A", "B">>)>>

(* --------------------- C12: metadata truncation ------------------------ *)
(* out is the first limit items of in (all of in when it is shorter)       *)
FirstOf(out, in, limit) ==
    /\ Len(out) = (IF Len(in) < limit THEN Len(in) ELSE limit)
    /\ \A k \in 1..Len(out) : out[k] = in[k]

(* C12: the title sent is the first 100 characters of the title (of the    *)
(* file name without extension when no title is given), the description    *)
(* the first 5000 characters of the description (of the default text       *)
(* when none is given), the tags the first 500 of the tags (of the         *)
(* default tags when none are given).                                      *)
C12_Truncation ==
    call.op = "snippet" =>
        /\ FirstOf(call.ret.title,
                   IF call.title = <<>> THEN splitext(call.name) ELSE call.title,
                   TITLE_LIMIT)
        /\ FirstOf(call.ret.description,
                   IF call.description = <<>> THEN DefaultDescription(clock)
                   ELSE call.description,
                   DESCRIPTION_LIMIT)
        /\ FirstOf(call.ret.tags,
                   IF call.tags = <<>> THEN call.default_tags ELSE call.tags,
                   TAGS_LIMIT)

C12_Witness ==
    /\ call.op = "snippet"
    /\ Len(call.description) = 2 * DESCRIPTION_LIMIT
    /\ Len(call.ret.description) = DESCRIPTION_LIMIT
    /\ Len(call.title) = TITLE_LIMIT + 1 /\ Len(call.ret.title) = TITLE_LIMIT
    /\ Len(call.tags) = TAGS_LIMIT + 1 /\ Len(call.ret.tags) = TAGS_LIMIT

(* ------------------ C13: the stored error message ---------------------- *)
(* C13 as claimed: the error message of the ledger entry of a failed item  *)
(* has at most 2000 characters.                                            *)
C13_LedgerErrorTruncated_Original ==
    call.op = "failure" =>
        Len(call.entry.error_message[1]) <= ERROR_LIMIT

(* C13, amended: the ledger entry of a failed item holds the whole         *)
(* exception text; the text sent to the notifier is its first 2000         *)
(* characters (no text at all when it is empty).                           *)
C13_NotifierErrorTruncated ==
    call.op = "failure" =>
        /\ call.entry.status = "failed"
        /\ call.entry.error_message = Some(call.text)
        /\ IF call.text = <<>>
           THEN call.properties.ErrorMessage = None
           ELSE /\ call.properties.ErrorMessage # None
                /\ FirstOf(call.properties.ErrorMessage[1], call.text, ERROR_LIMIT)

C13_Witness ==
    /\ call.op = "failure"
    /\ Len(call.text) = 2 * ERROR_LIMIT
    /\ Len(call.entry.error_message[1]) = 2 * ERROR_LIMIT
    /\ Len(call.properties.ErrorMessage[1]) = ERROR_LIMIT

(* ------------------------- C14: the backup ----------------------------- *)
(* C14 as claimed: whenever a step changes the ledger file, the backup     *)
(* file then holds the document the ledger file held before the step.      *)
C14_BackupHoldsPrior ==
    [][dbFile' # dbFile => backupFile' = dbFile]_vars

(* ---------------------- C15: listing failure --------------------------- *)
C15_NothingDone ==
    /\ log = <<>> /\ attempted = <<>> /\ uploadCalls = 0
    /\ \A i \in VideoIds : notifyCalls[i] = 0 /\ result[i] = "none"

(* process_videos is left from the listing call                            *)
C15_ListingRaises == pc = "list" /\ pc' # "loop"

(* C15: when list_videos raises, process_videos ends at once (the listing  *)
(* is not called again, the for loop is never entered) and from its entry  *)
(* to the raise nothing is downloaded, uploaded, notified or written to    *)
(* the ledger or its backup.                                               *)
C15_ListingFailureFatal ==
    /\ [][C15_ListingRaises =>
            /\ pc' = "idle" /\ ~prev'.listed
            /\ UNCHANGED <<dbFile, backupFile, scratch, processed, ytCount>>
            /\ C15_NothingDone']_vars
    /\ []((pc = "idle" /\ prev.cmd = cmd /\ cmd \in {"process", "retry"}
                       /\ ~prev.listed) => C15_NothingDone)

C15_Witness ==
    /\ pc = "idle" /\ cmd = "process" /\ prev.cmd = "process" /\ ~prev.listed
    /\ runs = MaxRuns
    /\ \E i \in DOMAIN Load(dbFile) : Load(dbFile)[i].status = "failed"
    /\ \E i \in VideoIds : ~is_processed(processed, i)

(* --------------------------- C17: dry run ------------------------------ *)
C17_InProcessVideos == pc \notin {"idle", "retry", "clear", "clear_all"}

(* C17: with DRY_RUN set, process_videos makes no download_file,           *)
(* upload_video or create_entry call and changes neither the in-memory     *)
(* ledger nor the ledger file, its backup or the scratch directory.        *)
C17_DryRunNoEffects ==
    /\ []((cfg.DRY_RUN /\ cmd \in {"process", "retry"}) =>
             /\ pc \in {"idle", "retry", "list", "loop"}
             /\ log = <<>> /\ attempted = <<>> /\ uploadCalls = 0
             /\ \A i \in VideoIds : notifyCalls[i] = 0)
    /\ [][(cfg.DRY_RUN /\ C17_InProcessVideos) =>
             UNCHANGED <<dbFile, backupFile, scratch, processed, ytCount>>]_vars

C17_Witness ==
    /\ pc = "idle" /\ cmd = "process" /\ cfg.DRY_RUN /\ ~cfg.skip_processed
    /\ prev.cmd = "process" /\ prev.dry /\ prev.listed
    /\ idx = NumVideos + 1
    /\ \E i \in DOMAIN processed : processed[i].status = "success"
    /\ \E i \in VideoIds : ~is_processed(processed, i)

(* ------------------------ C16: the retry command ----------------------- *)
(* the retry command has ended, in whatever way                            *)
RetryEnded == pc = "idle" /\ cmd = "retry" /\ prev.cmd = "retry"

RetriedAll ==
    \A i \in failedList : i \in Range(attempted) /\ is_processed(processed, i)

StagesOf(i) ==
    LET mine == SelectSeq(log, LAMBDA e : e[1] = i)
    IN  [k \in DOMAIN mine |-> mine[k][2]]

(* the stages of an item that is processed successfully: the notifier      *)
(* step is left out with SKIP_NOTION, the removal without                  *)
(* DELETE_AFTER_UPLOAD                                                     *)
SuccessStages ==
    <<"download", "upload">>
        \o (IF cfg.SKIP_NOTION THEN <<>> ELSE <<"notify">>)
        \o <<"record">>
        \o (IF cfg.DELETE_AFTER_UPLOAD THEN <<"delete">> ELSE <<>>)

RecordedSuccess(i) ==
    /\ <<i, "record">> \in Range(log)
    /\ i \notin saveFailed
    /\ is_processed(processed, i)
    /\ processed[i].status = "success"

(* C19 as claimed: recorded(success) is terminal; once mark_processed has  *)
(* recorded success for an item, no later step of the same run changes     *)
(* the status of its ledger entry.                                         *)
C19_SuccessIsTerminal ==
    [][pc # "idle" =>
          \A i \in VideoIds : RecordedSuccess(i) => RecordedSuccess(i)']_vars

(* ---------------------- C20: the retryable class ----------------------- *)
(* C20 as claimed: every status from 500 to 599 is answered by a backoff   *)
(* and another next_chunk call while the retry budget is not exhausted.    *)
C20_All5xxRetried_Original ==
    (call.op = "http_error" /\ call.status \in 500..599
                            /\ call.retry < MAX_RETRIES) =>
        call.ret.act = "sleep"

(* C20, amended: exactly the statuses 500, 502, 503 and 504 are answered   *)
(* by a backoff and another next_chunk call while the retry budget is not  *)
(* exhausted; every other status, the other 5xx included, is raised at     *)
(* once without touching the budget.                                       *)
C20_RetryableStatuses ==
    call.op = "http_error" =>
        IF call.status \in {500, 502, 503, 504}
        THEN /\ call.ret.retry = call.retry + 1
             /\ call.ret.act = (IF call.retry < MAX_RETRIES THEN "sleep" ELSE "raise")
        ELSE /\ call.ret.act = "raise"
             /\ call.ret.retry = call.retry

C20_Witness ==
    /\ call.op = "http_error"
    /\ call.status = 501 /\ call.retry = 0
    /\ call.ret.act = "raise"

(* ------------------------------- C21 ----------------------------------- *)
RECURSIVE PowerOfTwo(_)
PowerOfTwo(k) == IF k = 0 THEN 1 ELSE 2 * PowerOfTwo(k - 1)

(* the sleeps of the upload_video call in progress are 2, 4, 8, ...        *)
C21_Schedule ==
    pc = "upload" =>
        /\ Len(sleeps) = retry
        /\ Len(sleeps) <= MAX_RETRIES
        /\ \A k \in DOMAIN sleeps : sleeps[k] = PowerOfTwo(k)
        /\ \A k \in DOMAIN sleeps :
              k > 1 => sleeps[k] > sleeps[k - 1]

(* a step of the retry loop adds at most one sleep, the k-th one when the  *)
(* counter becomes k, and the step that raises the retryable error adds    *)
(* none: it is taken with MAX_RETRIES sleeps behind it                     *)
C21_Step ==
    (pc = "upload") =>
        /\ pc' = "upload" =>
              \/ sleeps' = sleeps /\ retry' = retry
              \/ /\ retry' = retry + 1
                 /\ sleeps' = Append(sleeps, PowerOfTwo(retry'))
        /\ exc' = "HttpError 5xx" =>
              /\ retry = MAX_RETRIES
              /\ Len(sleeps) = MAX_RETRIES
              /\ pc' = "fail_notify"
              /\ sleeps' = <<>>

(* C21: within one upload_video call the k-th retry (k = 1..MAX_RETRIES)   *)
(* sleeps exactly 2^k seconds before the next chunk request, the sleeps    *)
(* are strictly increasing, and the error that exhausts the budget is      *)
(* raised without a sleep.                                                 *)
C21_Backoff == []C21_Schedule /\ [][C21_Step]_vars

C21_Witness ==
    /\ pc = "upload"
    /\ retry = MAX_RETRIES
    /\ sleeps = <<2, 4, 8>>

(* ------------------------------- C22 ----------------------------------- *)
FailurePcs == {"fail_notify", "fail_record", "fail_cleanup"}

(* an error of the environment during the chunk loop that is not a         *)
(* retryable HttpError (those do not count as failures of the environment) *)
(* and not an interrupt: the step leaves the loop for the except block     *)
(* with the item marked failed, without a sleep or another next_chunk call *)
C22_Raise ==
    (pc = "upload" /\ faults' # faults /\ pc' # "idle") =>
        /\ pc' = "fail_notify"
        /\ exc' = "UploadError"
        /\ videos'[idx].upload_status = "failed"
        /\ videos'[idx].error_message = Some("UploadError")
        /\ Len(sleeps') = 0
        /\ chunkCalls' = 0
        /\ uploadCalls' = uploadCalls
        /\ ytCount' = ytCount

(* the except block never goes back to upload_video: it goes on to the     *)
(* next item unless an interrupt ends the run                              *)
C22_NoMore ==
    (pc \in FailurePcs) =>
        /\ \/ pc' \in FailurePcs \cup {"loop"}
           \/ pc' = "idle" /\ result'[idx] = "interrupted"
        /\ UNCHANGED <<sleeps, chunkCalls, uploadCalls, ytCount>>
        /\ videos'[idx].upload_status = "failed"

C22_EndsFailed ==
    \A i \in VideoIds :
        (Finished(i) /\ videos[i].error_message = Some("UploadError")) =>
            /\ result[i] = "raised"
            /\ i \in DOMAIN processed
            /\ processed[i].status = "failed"
            /\ processed[i].error_message = Some("UploadError")

(* C22: a non-retryable error on any chunk ends upload_video at once: no   *)
(* sleep and no further next_chunk call follow, and the item ends with     *)
(* ledger status "failed".                                                 *)
C22_NonRetryable ==
    /\ [][C22_Raise]_vars
    /\ [][C22_NoMore]_vars
    /\ []C22_EndsFailed

C22_Witness ==
    \E i \in VideoIds :
        /\ result[i] = "raised"
        /\ videos[i].error_message = Some("UploadError")
        /\ i \in DOMAIN Load(dbFile)
        /\ Load(dbFile)[i].status = "failed"
        /\ faults = 1

(* ------------------------------- C23 ----------------------------------- *)
(* C23: for each item processed in a run NotionHandler.create_entry is     *)
(* invoked at most once, on every path (success, failure in download or    *)
(* upload, failure in the ledger write or the cleanup after a successful   *)
(* upload).                                                                *)
C23_NotifiedAtMostOnce ==
    \A i \in VideoIds : notifyCalls[i] <= 1

(* ------------------------------- C24 ----------------------------------- *)
(* download_file raises an Exception: from the download step to the except *)
(* block of _process_single_video                                          *)
C24_DownloadRaises == pc = "download" /\ pc' = "fail_notify"

(* C24 as claimed: when download_file raises, the partial local file no    *)
(* longer exists afterwards and video.local_path is still unset.           *)
C24_DownloadCleanup_Original ==
    [][C24_DownloadRaises =>
          /\ idx \notin scratch'
          /\ videos'[idx].local_path = None]_vars

C24_Step ==
    C24_DownloadRaises =>
        /\ videos'[idx].local_path = None
        /\ videos'[idx].upload_status = "failed"
        /\ exc' \in {"DownloadError", "RemoveError"}
        /\ (idx \in scratch') <=> (exc' = "RemoveError")
        /\ (idx \in scratch') => (idx \in removeFailed')

(* the except block of the caller does not remove what download_file left  *)
C24_LeftBehind ==
    \A i \in VideoIds :
        (/\ result[i] = "raised"
         /\ videos[i].local_path = None
         /\ videos[i].error_message = Some("RemoveError")) => i \in scratch

(* C24, amended: when a request of download_file raises an Exception,      *)
(* download_file raises and video.local_path is still unset in the caller; *)
(* the partial local file no longer exists afterwards unless os.remove     *)
(* raised on it, and then the file stays for the rest of the run.          *)
C24_DownloadCleanup == [][C24_Step]_vars /\ []C24_LeftBehind

C24_Witness ==
    /\ pc = "fail_notify"
    /\ exc = "DownloadError"
    /\ log # <<>> /\ log[Len(log)] = <<idx, "download">>
    /\ idx \notin scratch
    /\ videos[idx].local_path = None
    /\ runs = 2 /\ ~cfg.DELETE_AFTER_UPLOAD /\ ~cfg.skip_processed
    /\ prev.cmd = "process" /\ ~prev.dry
    /\ idx \in DOMAIN processed /\ processed[idx].status = "success"

(* ------------------------------- C25 ----------------------------------- *)
(* the pageToken of the k-th request and the files of the first k pages    *)
RECURSIVE TokenAt(_, _)
TokenAt(source, k) ==
    IF k = 1 THEN None ELSE source[TokenAt(source, k - 1)].nextPageToken

RECURSIVE FilesUpTo(_, _)
FilesUpTo(source, k) ==
    IF k = 0 THEN <<>>
    ELSE FilesUpTo(source, k - 1) \o source[TokenAt(source, k)].files

(* the k-th response is the first one without a continuation token         *)
EndsAt(source, k) ==
    /\ \A j \in 1..(k - 1) : source[TokenAt(source, j)].nextPageToken # None
    /\ source[TokenAt(source, k)].nextPageToken = None

Count(seq, x) == Cardinality({n \in DOMAIN seq : seq[n] = x})

(* C25: list_videos requests pages until a response carries no             *)
(* continuation token and then stops; it returns the files of all pages    *)
(* requested, concatenated in response order, each file exactly once; it   *)
(* returns whenever the source answers some request without a token.       *)
C25_Pagination ==
    call.op = "list_videos" =>
        LET source == call.source
            ret    == call.ret
        IN  /\ ret.returned <=> \E k \in 1..(MaxPages + 1) : EndsAt(source, k)
            /\ \A k \in 1..(MaxPages + 1) :
                  EndsAt(source, k) =>
                      /\ ret.requests = k
                      /\ ret.videos = FilesUpTo(source, k)
                      /\ \A f \in 1..(2 * MaxPages + 2) :
                            Count(ret.videos, f) =
                                IF \E j \in 1..k :
                                      f \in Range(source[TokenAt(source, j)].files)
                                THEN 1 ELSE 0

C25_Witness ==
    /\ call.op = "list_videos"
    /\ call.ret.returned
    /\ call.ret.requests = MaxPages + 1
    /\ call.source[None].nextPageToken = Some(MaxPages)
    /\ Len(call.ret.videos) > MaxPages + 1
    /\ call.ret.videos[1] = 1

(* ------------------------------- C26 ----------------------------------- *)
(* a step of process_videos with skip_processed: an item that has a ledger *)
(* entry and has not been handed to _process_single_video is not handed to *)
(* it by the step, and its entry stays as it is                            *)
C26_Step ==
    (cfg.skip_processed /\ cmd = "process" /\ runs' = runs) =>
        \A i \in DOMAIN processed :
            i \notin Range(attempted) =>
                /\ i \notin Range(attempted')
                /\ i \in DOMAIN processed'
                /\ processed'[i] = processed[i]
                /\ (idx = i /\ pc = "loop") => (idx' = i + 1 /\ pc' = "loop")

(* download_file and upload_video are called for attempted items only      *)
C26_OnlyAttempted ==
    \A n \in DOMAIN log :
        log[n][2] \in {"download", "upload"} => log[n][1] \in Range(attempted)

(* C26: with skip_processed=true process_videos never downloads or uploads *)
(* an item that has any ledger entry, an entry with status "failed"        *)
(* included; the item is attempted again only once the entry is gone from  *)
(* the ledger or with skip_processed=false.                                *)
C26_FailedSkipped == [][C26_Step]_vars /\ []C26_OnlyAttempted

C26_Witness ==
    /\ cmd = "process" /\ cfg.skip_processed /\ ~cfg.DRY_RUN
    /\ pc = "loop" /\ idx = NumVideos + 1
    /\ \E i \in DOMAIN processed, j \in VideoIds :
          /\ processed[i].status = "failed"
          /\ i \notin Range(attempted)
          /\ j \in Range(attempted)

(* ------------------------------- C27 ----------------------------------- *)
(* a step inside one upload_video call: the retry counter never goes down, *)
(* a chunk that is taken leaves it and the sleeps as they are, and a       *)
(* retryable error raises exactly when MAX_RETRIES were retried before,    *)
(* whatever the number of chunks already sent                              *)
C27_Step ==
    (pc = "upload") =>
        /\ pc' = "upload" =>
              /\ retry' >= retry
              /\ Len(sleeps') >= Len(sleeps)
              /\ chunksLeft' < chunksLeft =>
                    (retry' = retry /\ sleeps' = sleeps)
        /\ exc' = "HttpError 5xx" => retry = MAX_RETRIES

C27_Budget ==
    pc = "upload" =>
        /\ Len(sleeps) = retry
        /\ retry <= MAX_RETRIES
        /\ chunkCalls >= retry
        /\ chunkCalls - retry <= MaxChunks - chunksLeft

(* C27: the retry counter is never reset after a successful chunk, so in   *)
(* one upload_video call there are at most MAX_RETRIES backoff sleeps and  *)
(* the (MAX_RETRIES+1)-th retryable error fails the upload even when       *)
(* successful chunks lie between the errors.                               *)
C27_BudgetPerUpload == []C27_Budget /\ [][C27_Step]_vars

(* the budget is used up although a chunk was sent in the same call        *)
C27_Witness ==
    /\ pc = "upload"
    /\ retry = MAX_RETRIES
    /\ Len(sleeps) = MAX_RETRIES
    /\ chunkCalls = MAX_RETRIES + 1
    /\ chunksLeft = 1
    /\ faults = 0

(* ------------------------------- C28 ----------------------------------- *)
(* the ledger in memory and the ledger the file holds                      *)
LedgerEntries ==
    {processed[i] : i \in DOMAIN processed}
        \cup {Load(dbFile)[i] : i \in DOMAIN Load(dbFile)}

C29_MarkStep ==
    (pc \in {"record", "fail_record"} /\ pc' # "idle") =>
        /\ DOMAIN processed' = DOMAIN processed \cup {idx}
        /\ processed'[idx] = LedgerEntry(videos[idx], clock)
        /\ processed'[idx].status = videos[idx].upload_status
        /\ processed'[idx].youtube_id = videos[idx].youtube_id
        /\ processed'[idx].error_message = videos[idx].error_message
        /\ \A k \in DOMAIN processed \ {idx} : processed'[k] = processed[k]

(* a written ledger document has one member per id                         *)
OneMemberPerKey(f) ==
    f.kind = "json" =>
        \A m, n \in DOMAIN f.doc : f.doc[m].key = f.doc[n].key => m = n

C29_OnePerId ==
    /\ OneMemberPerKey(dbFile)
    /\ OneMemberPerKey(backupFile)
    /\ DOMAIN processed \subseteq VideoIds

(* C29: mark_processed is an upsert: the ledger holds at most one entry    *)
(* per source id, a mark_processed on an id already present replaces that  *)
(* entry with the latest outcome, and the entries of all other ids are     *)
(* unchanged.                                                              *)
C29_Upsert == [][C29_MarkStep]_vars /\ []C29_OnePerId

(* with skip_processed=false an item recorded as success by the previous   *)
(* run (the backup still has that entry) is recorded as failed             *)
C29_Witness ==
    /\ runs = 2 /\ cmd = "process" /\ ~cfg.skip_processed
    /\ pc = "fail_cleanup"
    /\ processed[idx].status = "failed"
    /\ processed[idx].youtube_id = None
    /\ idx \in DOMAIN Load(backupFile)
    /\ Load(backupFile)[idx].status = "success"
    /\ Load(dbFile) = processed
    /\ \E k \in DOMAIN processed : k # idx

(* ------------------------------- C30 ----------------------------------- *)
(* the ledger file cannot be used: it is missing, it does not parse, or    *)
(* reading it raised                                                       *)
LoadFellBack == loaded \in {"missing", "decode_error", "read_error"}

(* constructing the tracker: the command always goes on, and with a file   *)
(* that is missing, unparsable or unreadable the ledger is empty           *)
C30_LoadStep ==
    (pc = "idle" /\ runs' # runs) =>
        /\ pc' \in {"list", "retry", "clear", "clear_all"}
        /\ loaded' = "missing" <=> dbFile = MissingFile
        /\ loaded' = "decode_error" <=> dbFile = CorruptFile
        /\ loaded' \in {"ok", "read_error"} <=> dbFile.kind = "json"
        /\ loaded' # "ok" =>
              /\ processed' = EmptyLedger
              /\ \A id \in VideoIds : ~is_processed(processed', id)
        /\ loaded' = "ok" => processed' = Load(dbFile)

(* after such a start the ledger holds entries of this run's items only,   *)
(* and a _save that succeeds leaves exactly those in the file              *)
C30_OnlyNew ==
    (LoadFellBack /\ runs > 0) =>
        /\ DOMAIN processed \subseteq Range(attempted)
        /\ \A i \in VideoIds : i \notin Range(attempted) => ~is_processed(processed, i)

C30_SaveStep ==
    (LoadFellBack /\ runs' = runs /\ dbFile' # dbFile /\ dbFile'.kind = "json") =>
        /\ Load(dbFile') = processed'
        /\ DOMAIN Load(dbFile') \subseteq Range(attempted)

(* C30: loading never fails: when the ledger file is missing, is not valid *)
(* JSON or cannot be read, the tracker starts with an empty ledger instead *)
(* of raising, so is_processed is false for every id and the next mutation *)
(* overwrites the file with only the new entries.                          *)
C30_LoadNeverFails ==
    /\ [][C30_LoadStep]_vars
    /\ []C30_OnlyNew
    /\ [][C30_SaveStep]_vars

(* a run that could not read a ledger of two entries has written a ledger  *)
(* of one                                                                  *)
C30_Witness ==
    /\ loaded = "read_error"
    /\ cmd = "process"
    /\ Load(dbFile) = processed
    /\ Cardinality(DOMAIN processed) = 1
    /\ Cardinality(DOMAIN Load(backupFile)) = 2

====
